---- MODULE Spec2Model ----
(***************************************************************************)
(* Session lifecycle of the interactive-session page: the avatar session   *)
(* hook (useStreamingAvatarSession), the transcript accumulator            *)
(* (handleNewSegment), the local recorder, the countdown and the session   *)
(* finalizer (stopAndFinalizeSession), for the five copies of the page     *)
(* that the repository holds.                                              *)
(*                                                                         *)
(* One action is one task of the browser's event loop: the synchronous     *)
(* run of a handler up to its next await.  A React state update, the       *)
(* re-render it causes and the effects of that render are taken as one     *)
(* step with the handler that made the update.                             *)
(***************************************************************************)
EXTENDS Integers, Sequences, FiniteSets, TLC

(***************************************************************************)
(* Bounds of the exploration.                                               *)
(***************************************************************************)
MaxAttempts == 2    \* connect attempts (initAvatar calls) per page visit
MaxRuns == 3        \* finalize invocations that pass the guard
MaxSegments == 2    \* talking-message events delivered by the vendor SDK
MaxChunks == 1      \* timeslice chunks delivered before the recorder stops
EarlyWindow == 0    \* new events are explored in the first seconds ...
LateWindow == 2     \* ... and in the last seconds of the countdown
MaxLateTicks == 1   \* countdown ticks explored after the first finalize
MaxFaults == 1      \* failures and unexpected events per page visit
MaxHeard == 3       \* calls of the accumulator's handlers (AccSpec)
MaxClock == 1       \* milliseconds that pass between those calls (AccSpec)

(***************************************************************************)
(* Program constants.                                                       *)
(***************************************************************************)
Budget == 480       \* useState(480), and 480 - recordingTimer

INACTIVE == "inactive"
CONNECTING == "connecting"
CONNECTED == "connected"

CLIENT == "CLIENT"
AVATAR == "AVATAR"

\* The copies of the session page.
\*   R  src/app/dashboard/route.ts              (lines 109-761)
\*   B  src/app/page.tsx                        (useMemoizedFn copy)
\*   A  src/app/interactive-session/page.tsx    (lines 47-339, sessionInfo copy)
\*   C  src/app/interactive-session/page.tsx    (lines 575-986, enableMedia copy)
\*   D  src/templates/dashboard.html            (lines 247-587, JWT upload copy)
Pages == {"R", "B", "A", "C", "D"}

NoSender == "none"
NoId == <<>>

\* What the query string and the cookies can hold.
AllFields == {"name", "email", "scenario", "token", "jwt"}

\* The fields a copy reads: the jwt cookie is read by the finalizers of A and D,
\* the token by the render guards of R, B, C and by the session-info effect of D.
FieldsRead(p) ==
    CASE p = "A" -> {"name", "email", "scenario", "jwt"}
      [] p = "D" -> AllFields
      [] OTHER -> {"name", "email", "scenario", "token"}

\* The contents explored: every field the copy reads present, or one missing.
DataCases(p) ==
    {FieldsRead(p)} \cup {FieldsRead(p) \ {f} : f \in FieldsRead(p) \ {"email", "scenario"}}

(***************************************************************************)
(* Strings are sequences of one-character strings, so that trim, endsWith, *)
(* includes, slice and join are computed as the code computes them.        *)
(***************************************************************************)
IsSpace(c) == c \in {" ", "\n"}

RECURSIVE TrimStart(_)
TrimStart(s) ==
    IF s = <<>> THEN <<>>
    ELSE IF IsSpace(Head(s)) THEN TrimStart(Tail(s)) ELSE s

RECURSIVE TrimEnd(_)
TrimEnd(s) ==
    IF s = <<>> THEN <<>>
    ELSE IF IsSpace(s[Len(s)]) THEN TrimEnd(SubSeq(s, 1, Len(s) - 1)) ELSE s

\* No trimming at all.  C17_BlankSegment fails for it.
TrimNothing(s) == s

Trim(s) == TrimEnd(TrimStart(s))

EndsWith(s, t) ==
    /\ Len(t) <= Len(s)
    /\ SubSeq(s, Len(s) - Len(t) + 1, Len(s)) = t

Includes(s, t) ==
    \E i \in 0..(Len(s) - Len(t)) : SubSeq(s, i + 1, i + Len(t)) = t

\* s.slice(-n): the last n characters (the whole string when n >= length;
\* slice(-0) is slice(0), the whole string).
SliceLast(s, n) ==
    IF n = 0 \/ n >= Len(s) THEN s ELSE SubSeq(s, Len(s) - n + 1, Len(s))

RECURSIVE Join(_, _)
Join(strs, sep) ==
    IF strs = <<>> THEN <<>>
    ELSE IF Len(strs) = 1 THEN strs[1]
    ELSE strs[1] \o sep \o Join(Tail(strs), sep)

RECURSIVE ContentsOf(_, _)
ContentsOf(msgs, sender) ==
    IF msgs = <<>> THEN <<>>
    ELSE IF Head(msgs).sender = sender
         THEN <<Head(msgs).content>> \o ContentsOf(Tail(msgs), sender)
         ELSE ContentsOf(Tail(msgs), sender)

\* messages.filter(m => m.sender === sender).map(m => m.content).join('\n')
Transcript(msgs, sender) == Join(ContentsOf(msgs, sender), <<"\n">>)

(***************************************************************************)
(* The transcript accumulator of context.tsx.  Its state is the record     *)
(* acc = [m, s, i]: the messages list, currentSenderRef and                *)
(* currentMessageIdRef.  t is the value of Date.now().                     *)
(***************************************************************************)
Acc(m, s, i) == [m |-> m, s |-> s, i |-> i]

EndsWithJoiner(s) ==
    \/ EndsWith(s, <<" ">>)
    \/ EndsWith(s, <<".">>)
    \/ EndsWith(s, <<"?">>)
    \/ EndsWith(s, <<"!">>)

\* The first message gets the content instead of the last.
\* C15_AppendOnly fails for it.
ReplaceFirst(msgs, content) ==
    [msgs EXCEPT ![1] = [@ EXCEPT !.content = content]]

ReplaceLast(msgs, content) ==
    [msgs EXCEPT ![Len(msgs)] = [@ EXCEPT !.content = content]]

\* The accumulator without its two duplicate tests.  C13_DuplicateDropped
\* fails for it.
handleNewSegmentKeepingDuplicates(acc, newSegment, sender, messageId, t) ==
    LET trimmed == Trim(newSegment) IN
    IF trimmed = <<>> THEN acc
    ELSE IF acc.s = sender /\ acc.i = messageId /\ Len(acc.m) > 0
    THEN LET lastContent == acc.m[Len(acc.m)].content
             contentToAdd ==
                 IF EndsWithJoiner(lastContent) THEN trimmed
                 ELSE (IF lastContent # <<>> THEN <<" ">> ELSE <<>>) \o trimmed
         IN  [acc EXCEPT !.m = ReplaceLast(acc.m, lastContent \o contentToAdd)]
    ELSE Acc(Append(acc.m, [id |-> <<t, sender, messageId>>,
                            sender |-> sender,
                            content |-> trimmed]),
             sender, messageId)

handleNewSegment(acc, newSegment, sender, messageId, t) ==
    LET trimmed == Trim(newSegment) IN
    IF trimmed = <<>> THEN acc
    ELSE IF acc.s = sender /\ acc.i = messageId /\ Len(acc.m) > 0
    THEN LET lastContent == acc.m[Len(acc.m)].content
             contentToAdd ==
                 IF EndsWithJoiner(lastContent) THEN trimmed
                 ELSE (IF lastContent # <<>> THEN <<" ">> ELSE <<>>) \o trimmed
         IN  IF EndsWith(lastContent, trimmed) THEN acc
             ELSE IF /\ Includes(lastContent, trimmed)
                     /\ Includes(SliceLast(lastContent, 2 * Len(trimmed)), trimmed)
             THEN acc
             ELSE [acc EXCEPT !.m = ReplaceLast(acc.m, lastContent \o contentToAdd)]
    ELSE Acc(Append(acc.m, [id |-> <<t, sender, messageId>>,
                            sender |-> sender,
                            content |-> trimmed]),
             sender, messageId)

\* detail.task_id || Date.now().toString(); an absent task_id is "".
MessageIdOf(detail, t) ==
    IF detail.task_id # "" THEN <<detail.task_id, 0>> ELSE <<"", t>>

\* A detail without a message (or with a non-string one) has message <<>>.
handleUserTalkingMessage(acc, detail, t) ==
    handleNewSegment(acc, detail.message, CLIENT, MessageIdOf(detail, t), t)

\* The avatar's handler attributing its segments to the user.
\* C16_Attribution fails for it.
handleStreamingTalkingMessageAsClient(acc, detail, t) ==
    handleNewSegment(acc, detail.message, CLIENT, MessageIdOf(detail, t), t)

handleStreamingTalkingMessage(acc, detail, t) ==
    handleNewSegment(acc, detail.message, AVATAR, MessageIdOf(detail, t), t)

handleEndMessage(acc) == Acc(acc.m, NoSender, NoId)

clearMessages(acc) == Acc(<<>>, NoSender, NoId)

VARIABLES
    page,                       \* which copy of the page is running
    userData,                   \* the fields present in the query or the cookies
    mounted,                    \* the page component is mounted
    \* --- hook and context (useStreamingAvatarSession, context.tsx)
    sessionState,
    stream,                     \* the avatar MediaStream state is non-null
    avatars,                    \* the StreamingAvatar objects made by initAvatar
    stopsPending,               \* stop() calls awaiting avatar.stopAvatar()
    messages,
    currentSenderRef,
    currentMessageIdRef,
    now,                        \* Date.now()
    segments,                   \* talking-message events delivered so far
    heard,                      \* the calls of the accumulator's handlers so far
    \* --- page state
    hasUserMediaPermission,
    showAutoplayBlockedMessage,
    isAttemptingAutoStart,
    recordingTimer,
    interval,                   \* the setInterval of the countdown effect is live
    isFinalizingRef,
    connects,                   \* startHeyGenSession calls in flight
    \* --- local media
    mediaPc,                    \* getUserMedia: "idle", "asking", "granted", "denied"
    localUserStreamRef,         \* the ref holds a stream
    tracksLive,                 \* the tracks of the acquired stream are live
    playPending,                \* avatarVideo.play() has not settled yet
    mediaRecorderRef,           \* the ref holds the recorder
    recorder,                   \* the MediaRecorder object, [state, flush, onstop]
    recordedChunks,             \* number of chunks in recordedChunks.current
    \* --- finalizer
    runs,                       \* finalize invocations that passed the guard
    \* --- what the outside world saw
    uploads,                    \* POST /upload_video requests issued
    logs,                       \* POST /log_full_session bodies issued
    navs,                       \* router.push('/dashboard') calls
    lateTicks,                  \* countdown ticks since the first finalizer run
    faults,                     \* failures and unexpected events so far
    \* --- the dashboard (DashboardClient.tsx)
    sessions,                   \* initialData.sessions as the server sent them
    records,                    \* the records the dashboard made of them
    \* --- the login page (HomePage)
    fields,                     \* the inputs name, email and token
    error,                      \* the error message shown
    cookieJar,                  \* the cookies of the browser
    validations,                \* handleSubmit calls that sent POST /validate_user
    pushed,                     \* router.push calls of the login page
    \* --- the middleware
    req,                        \* the request the middleware is called with
    res                         \* what the middleware returned for it

hookVars == <<sessionState, stream, avatars, stopsPending>>
ctxVars == <<messages, currentSenderRef, currentMessageIdRef, now, segments, heard>>
uiVars == <<hasUserMediaPermission, showAutoplayBlockedMessage, isAttemptingAutoStart>>
mediaVars == <<mediaPc, localUserStreamRef, tracksLive, playPending>>
recVars == <<mediaRecorderRef, recorder, recordedChunks>>
outVars == <<uploads, logs, navs>>
envVars == <<page, userData, mounted>>
dashVars == <<sessions, records>>
loginVars == <<fields, error, cookieJar, validations, pushed>>
mwVars == <<req, res>>
sessionVars == <<envVars, hookVars, ctxVars, uiVars, mediaVars, recVars, outVars,
                 recordingTimer, interval, isFinalizingRef, connects, runs,
                 lateTicks, faults>>

vars == <<envVars, hookVars, ctxVars, uiVars, mediaVars, recVars, outVars,
          recordingTimer, interval, isFinalizingRef, connects, runs, lateTicks,
          faults, dashVars, loginVars, mwVars>>

(***************************************************************************)
(* Handlers are written as functions from the program state to the program *)
(* state, so that a handler that calls another one (finalize calls stop,   *)
(* a vendor event runs two listeners) is their composition.  State is the  *)
(* current state as a record and Becomes(s) makes s the next state.        *)
(***************************************************************************)
State ==
    [page |-> page, userData |-> userData, mounted |-> mounted,
     sessionState |-> sessionState, stream |-> stream, avatars |-> avatars,
     stopsPending |-> stopsPending, messages |-> messages,
     currentSenderRef |-> currentSenderRef,
     currentMessageIdRef |-> currentMessageIdRef,
     now |-> now, segments |-> segments, heard |-> heard,
     hasUserMediaPermission |-> hasUserMediaPermission,
     showAutoplayBlockedMessage |-> showAutoplayBlockedMessage,
     isAttemptingAutoStart |-> isAttemptingAutoStart,
     recordingTimer |-> recordingTimer, interval |-> interval,
     isFinalizingRef |-> isFinalizingRef, connects |-> connects,
     mediaPc |-> mediaPc, localUserStreamRef |-> localUserStreamRef,
     tracksLive |-> tracksLive, playPending |-> playPending,
     mediaRecorderRef |-> mediaRecorderRef,
     recorder |-> recorder, recordedChunks |-> recordedChunks,
     runs |-> runs, uploads |-> uploads, logs |-> logs, navs |-> navs,
     lateTicks |-> lateTicks, faults |-> faults]

Becomes(next) ==
    \E s \in {next} :
    /\ page' = s.page /\ userData' = s.userData /\ mounted' = s.mounted
    /\ sessionState' = s.sessionState /\ stream' = s.stream
    /\ avatars' = s.avatars /\ stopsPending' = s.stopsPending
    /\ messages' = s.messages
    /\ currentSenderRef' = s.currentSenderRef
    /\ currentMessageIdRef' = s.currentMessageIdRef
    /\ now' = s.now /\ segments' = s.segments /\ heard' = s.heard
    /\ hasUserMediaPermission' = s.hasUserMediaPermission
    /\ showAutoplayBlockedMessage' = s.showAutoplayBlockedMessage
    /\ isAttemptingAutoStart' = s.isAttemptingAutoStart
    /\ recordingTimer' = s.recordingTimer /\ interval' = s.interval
    /\ isFinalizingRef' = s.isFinalizingRef /\ connects' = s.connects
    /\ mediaPc' = s.mediaPc /\ localUserStreamRef' = s.localUserStreamRef
    /\ tracksLive' = s.tracksLive /\ playPending' = s.playPending
    /\ mediaRecorderRef' = s.mediaRecorderRef
    /\ recorder' = s.recorder /\ recordedChunks' = s.recordedChunks
    /\ runs' = s.runs /\ uploads' = s.uploads /\ logs' = s.logs
    /\ navs' = s.navs /\ lateTicks' = s.lateTicks /\ faults' = s.faults
    /\ UNCHANGED <<dashVars, loginVars, mwVars>>

\* sessionInfo of copies A and D: set by the session-info effect when the
\* fields it tests are present; the other copies have no such state.
HasSessionInfo(s) ==
    CASE s.page = "A" -> {"name", "email", "scenario"} \subseteq s.userData
      [] s.page = "D" -> {"name", "email", "scenario", "token"} \subseteq s.userData
      [] OTHER -> TRUE

\* The session controls are rendered only when the user data are present.
ControlsRendered(s) ==
    /\ s.mounted
    /\ IF s.page \in {"A", "D"} THEN HasSessionInfo(s)
       ELSE {"name", "email", "scenario", "token"} \subseteq s.userData

\* The getUserMedia effect runs at mount (in A and D once sessionInfo is set).
AsksMediaAtMount(p, data) ==
    CASE p = "A" -> {"name", "email", "scenario"} \subseteq data
      [] p = "D" -> {"name", "email", "scenario", "token"} \subseteq data
      [] OTHER -> TRUE

NoRecorder == [state |-> "none", flush |-> FALSE, onstop |-> 0]


(***************************************************************************)
(* The local recorder and the device tracks.                                *)
(***************************************************************************)
\* MediaRecorder.stop(): the state is "inactive" at once; the final
\* dataavailable event and the stop event are queued.
RecorderStop(r) == [r EXCEPT !.state = "inactive", !.flush = TRUE]

\* stream.getTracks().forEach(t => t.stop())
StopTracks(s) == [s EXCEPT !.tracksLive = FALSE]

\* Copy C calls stopUserCameraRecording() and its file does not define it:
\* the helper is taken from step 3 of the finalizer's contract, which
\* releases the device tracks.
stopUserCameraRecordingOfC(s) ==
    IF s.localUserStreamRef
    THEN [StopTracks(s) EXCEPT !.localUserStreamRef = FALSE]
    ELSE s

\* stopUserCameraRecording.  R and D stop the tracks and clear the stream
\* ref; B first stops the recorder and clears the recorder ref.
stopUserCameraRecording(s) ==
    IF s.page = "C" THEN stopUserCameraRecordingOfC(s)
    ELSE LET s1 == IF /\ s.page = "B" /\ s.mediaRecorderRef
                      /\ s.recorder.state # "inactive"
                   THEN [s EXCEPT !.recorder = RecorderStop(@),
                                  !.mediaRecorderRef = FALSE]
                   ELSE s
         IN  IF s1.localUserStreamRef
             THEN [StopTracks(s1) EXCEPT !.localUserStreamRef = FALSE]
             ELSE s1

\* Copy A calls startUserCameraRecording() and its file does not define it
\* before the call: the helper is taken from the recorder's contract (a
\* recorder is made on the acquired stream unless one exists).
startUserCameraRecordingOfA(s) ==
    IF ~s.localUserStreamRef \/ s.mediaRecorderRef \/ ~s.tracksLive THEN s
    ELSE [s EXCEPT !.recorder = [state |-> "recording", flush |-> FALSE, onstop |-> 0],
                   !.recordedChunks = 0,
                   !.mediaRecorderRef = TRUE]

\* A startUserCameraRecording that does not test mediaRecorderRef.
\* C27_OneRecorder fails for it.
startUserCameraRecordingAgain(s) ==
    IF ~s.localUserStreamRef \/ ~s.tracksLive THEN s
    ELSE [s EXCEPT !.recorder = [state |-> "recording", flush |-> FALSE, onstop |-> 0],
                   !.recordedChunks = 0,
                   !.mediaRecorderRef = TRUE]

\* startUserCameraRecording: nothing without a stream or with a recorder;
\* a recorder cannot be made on ended tracks (the catch block logs).
startUserCameraRecording(s) ==
    IF s.page = "A" THEN startUserCameraRecordingOfA(s)
    ELSE IF ~s.localUserStreamRef \/ s.mediaRecorderRef \/ ~s.tracksLive THEN s
    ELSE [s EXCEPT !.recorder = [state |-> "recording", flush |-> FALSE, onstop |-> 0],
                   !.recordedChunks = 0,
                   !.mediaRecorderRef = TRUE]

(***************************************************************************)
(* Effects of a render.  s0 is the state before the handler ran, s the     *)
(* state after it.                                                          *)
(***************************************************************************)
\* A recording effect that does not wait for CONNECTED.
\* C28_RecorderAfterConnected fails for it.
RecordingEffectAnyState(s0, s) ==
    IF /\ s.sessionState # s0.sessionState
          \/ s.hasUserMediaPermission # s0.hasUserMediaPermission
       /\ s.hasUserMediaPermission
       /\ ~s.mediaRecorderRef
    THEN startUserCameraRecording(s)
    ELSE s

\* The effect that starts the recording, deps [sessionState, hasUserMediaPermission].
RecordingEffect(s0, s) ==
    IF /\ s.sessionState # s0.sessionState
          \/ s.hasUserMediaPermission # s0.hasUserMediaPermission
       /\ s.sessionState = CONNECTED
       /\ s.hasUserMediaPermission
       /\ ~s.mediaRecorderRef
    THEN startUserCameraRecording(s)
    ELSE s

\* React state changed, so the component rendered again.
Rendered(s0, s) ==
    \/ s.sessionState # s0.sessionState
    \/ s.stream # s0.stream
    \/ s.messages # s0.messages
    \/ s.hasUserMediaPermission # s0.hasUserMediaPermission
    \/ s.showAutoplayBlockedMessage # s0.showAutoplayBlockedMessage
    \/ s.isAttemptingAutoStart # s0.isAttemptingAutoStart
    \/ s.recordingTimer # s0.recordingTimer

\* stopAndFinalizeSession is a new function on every render in R, on every
\* render with a new recordingTimer in A and D (useCallback), never in B
\* and C (useMemoizedFn).
FinalizeIdentityChanged(s0, s) ==
    CASE s.page = "R" -> Rendered(s0, s)
      [] s.page \in {"A", "D"} -> s.recordingTimer # s0.recordingTimer
      [] OTHER -> FALSE

\* A countdown effect without its cleanup: the interval is never cleared.
\* C9_TicksOnlyConnected fails for it.
TimerEffectWithoutCleanup(s0, s) ==
    IF s.sessionState # s0.sessionState /\ s.sessionState = CONNECTED
    THEN [s EXCEPT !.interval = TRUE]
    ELSE s

\* The countdown effect, deps [sessionState, stopAndFinalizeSession]: its
\* cleanup clears the interval and it sets a new one only when CONNECTED.
TimerEffect(s0, s) ==
    IF s.sessionState # s0.sessionState \/ FinalizeIdentityChanged(s0, s)
    THEN [s EXCEPT !.interval = (s.sessionState = CONNECTED)]
    ELSE s

\* The effect that binds the avatar stream to the video element, deps
\* [stream]: play() is called once the metadata are loaded.
StreamEffect(s0, s) ==
    IF s.stream # s0.stream /\ s.stream
    THEN [s EXCEPT !.playPending = TRUE]
    ELSE s

\* The effects run in the order of their declaration.
Effects(s0, s) ==
    IF ~s.mounted THEN s
    ELSE CHOOSE s3 \in {StreamEffect(s0, s2) :
                    s2 \in {TimerEffect(s0, s1) :
                        s1 \in {RecordingEffect(s0, s)}}} : TRUE

(***************************************************************************)
(* The hook useStreamingAvatarSession.  An avatar is                        *)
(*   [status, hook, talk, ptimer]:                                          *)
(* status is the vendor's side ("new", "starting", "ready", "closing",      *)
(* "closed"), hook says that handleStream and stop are registered, talk    *)
(* that the hook's talking-message listeners are, ptimer is the            *)
(* recordingTimer seen by the listeners the page registered.               *)
(***************************************************************************)
NewAvatar(t) == [status |-> "new", hook |-> FALSE, talk |-> FALSE, ptimer |-> t]

\* init(token): avatarRef.current = new StreamingAvatar(...)
init(s, t) == [s EXCEPT !.avatars = Append(@, NewAvatar(t))]

HasAvatar(s) == Len(s.avatars) > 0

\* handleStream: setStream(detail); setSessionState(CONNECTED)
handleStream(s) == [s EXCEPT !.stream = TRUE, !.sessionState = CONNECTED]

\* stop(), up to its await: listeners off, clearMessages, stream null, and
\* the vendor's stopAvatar() called on avatarRef.current.  Without an
\* avatar the await is of undefined and INACTIVE is set in the same task.
stop(s) ==
    LET acc == clearMessages(Acc(s.messages, s.currentSenderRef, s.currentMessageIdRef))
        n == Len(s.avatars)
        s1 == [s EXCEPT !.messages = acc.m,
                        !.currentSenderRef = acc.s,
                        !.currentMessageIdRef = acc.i,
                        !.stream = FALSE]
    IN  IF n = 0 THEN [s1 EXCEPT !.sessionState = INACTIVE]
        ELSE [s1 EXCEPT !.avatars[n].hook = FALSE,
                        !.avatars[n].status =
                            IF @ = "closed" THEN "closed" ELSE "closing",
                        !.stopsPending = @ + 1]


(***************************************************************************)
(* stopAndFinalizeSession.  A run is one invocation that passed the guard: *)
(*   pc       where its async function is suspended                        *)
(*   trig     what invoked it                                               *)
(*   conv, avt, dur   the transcripts and the duration it computed          *)
(*   at       recordingTimer when it took effect                            *)
(*   built, blobNull, blobChunks   the blob it made from recordedChunks     *)
(*   early    it read recordedChunks while the recorder had not yet         *)
(*            delivered its final chunk and its stop event                  *)
(*   key      the s3_object_key it got ("" for null)                        *)
(*   alerted  it raised an alert                                            *)
(***************************************************************************)
NewRun(trig, snap, ctimer, at, state) ==
    [pc |-> "start", trig |-> trig, state |-> state,
     conv |-> Transcript(snap, CLIENT), avt |-> Transcript(snap, AVATAR),
     dur |-> Budget - ctimer, at |-> at,
     built |-> FALSE, blobNull |-> TRUE, blobChunks |-> 0, early |-> FALSE,
     key |-> "", alerted |-> FALSE]

RecorderBusy(r) == r.state = "recording" \/ r.flush

\* A blob that is made whatever the length of the list, as in copy A, by
\* every copy.  C5_NoChunks fails for it.
BuildBlobNeverNull(s, k) ==
    [s EXCEPT !.runs[k].built = TRUE,
              !.runs[k].blobNull = FALSE,
              !.runs[k].blobChunks = s.recordedChunks,
              !.runs[k].early = RecorderBusy(s.recorder),
              !.recordedChunks = 0]

\* Reading recordedChunks.current into the blob of run k.
\*   R: null when empty; the list and the recorder ref are cleared after.
\*   B, C: null when empty; the list is cleared when it was not empty.
\*   A: new Blob(recordedChunks.current), never null.
\*   D: as R without the clearing (only reached after the stop event).
BuildBlob(s, k) ==
    LET n == s.recordedChunks
        s1 == [s EXCEPT !.runs[k].built = TRUE,
                        !.runs[k].blobNull = IF s.page = "A" THEN FALSE ELSE n = 0,
                        !.runs[k].blobChunks = n,
                        !.runs[k].early = RecorderBusy(s.recorder)]
    IN  CASE s.page = "R" -> [s1 EXCEPT !.recordedChunks = 0, !.mediaRecorderRef = FALSE]
          [] s.page \in {"B", "C"} -> [s1 EXCEPT !.recordedChunks = 0]
          [] OTHER -> s1

\* finally { router.push('/dashboard') }; B first awaits the progress bar.
Leave(s, k) ==
    IF s.page = "B" THEN [s EXCEPT !.runs[k].pc = "preNav"]
    ELSE [s EXCEPT !.runs[k].pc = "done", !.navs = @ + 1]

\* A catch block without the finally block: the run ends without
\* navigating.  C3_FinalizeNavigates fails for it.
CaughtWithoutFinally(s, k) ==
    [s EXCEPT !.runs[k].alerted = TRUE, !.runs[k].pc = "failed"]

\* catch (err) { alert(...) } finally { ... }
Caught(s, k) == Leave([s EXCEPT !.runs[k].alerted = TRUE], k)

\* fetch(.../log_full_session) is issued.
PostLog(s, k) ==
    [s EXCEPT !.runs[k].pc = "log",
              !.logs = Append(@, [run |-> k,
                                  conversation |-> s.runs[k].conv,
                                  avatar_transcript |-> s.runs[k].avt,
                                  duration |-> s.runs[k].dur,
                                  video_object_key |-> s.runs[k].key])]

\* fetch(.../upload_video) is issued.
PostUpload(s, k) ==
    [s EXCEPT !.runs[k].pc = "upload",
              !.uploads = Append(@, [run |-> k, chunks |-> s.runs[k].blobChunks])]

\* The try block of the finalizer, from its start to its first await.
\* A uploads when videoBlob.size > 0 and needs the jwt cookie; the others
\* upload when the blob is not null.  B awaits the progress bar first.
Submit(s, k) ==
    LET r == s.runs[k]
        hasVideo == IF s.page = "A" THEN r.blobChunks > 0 ELSE ~r.blobNull
    IN  IF hasVideo
        THEN IF s.page = "A" /\ "jwt" \notin s.userData THEN Caught(s, k)
             ELSE IF s.page = "B" THEN [s EXCEPT !.runs[k].pc = "preUpload"]
             ELSE PostUpload(s, k)
        ELSE IF s.page = "B" THEN [s EXCEPT !.runs[k].pc = "preLog"]
             ELSE PostLog(s, k)

\* What follows the wait for the recorder in R (the 100 ms timeout) and in
\* C and D (the stop event).
AfterRecorderWait(s, k) ==
    CASE s.page = "R" -> Submit(stopUserCameraRecording(BuildBlob(s, k)), k)
      [] s.page = "D" -> Submit(stopUserCameraRecording(
                             IF s.recordedChunks > 0 THEN BuildBlob(s, k) ELSE s), k)
      [] OTHER -> Submit(BuildBlob(s, k), k)

\* The recorder part of the finalizer, after stopAvatar(), for run k.
StopRecorder(s, k) ==
    LET recording == s.mediaRecorderRef /\ s.recorder.state = "recording" IN
    CASE s.page = "R" ->
            IF ~s.mediaRecorderRef THEN Submit(stopUserCameraRecording(s), k)
            ELSE IF recording
                 THEN [s EXCEPT !.recorder = RecorderStop([@ EXCEPT !.onstop = k]),
                                !.runs[k].pc = "timeout"]
                 ELSE AfterRecorderWait(s, k)
      [] s.page = "B" -> Submit(BuildBlob(stopUserCameraRecording(s), k), k)
      [] s.page = "A" ->
            LET s1 == IF recording THEN [s EXCEPT !.recorder = RecorderStop(@)] ELSE s
                s2 == IF s1.localUserStreamRef THEN StopTracks(s1) ELSE s1
            IN  Submit(BuildBlob(s2, k), k)
      [] s.page = "C" ->
            LET s1 == stopUserCameraRecording(s) IN
            IF recording
            THEN [s1 EXCEPT !.recorder = RecorderStop([@ EXCEPT !.onstop = k]),
                            !.runs[k].pc = "onstop"]
            ELSE AfterRecorderWait(s1, k)
      [] OTHER ->
            IF recording
            THEN [s EXCEPT !.recorder = RecorderStop([@ EXCEPT !.onstop = k]),
                           !.runs[k].pc = "onstop"]
            ELSE Submit(stopUserCameraRecording(s), k)

\* A finalizer that derives the transcripts from the message list as it is
\* after stopAvatar() cleared it.  C11_Transcripts fails for it.
stopAndFinalizeSessionAfterClear(s, trig, snap, ctimer, at, info) ==
    IF s.isFinalizingRef \/ (s.page \in {"A", "D"} /\ ~info) THEN s
    ELSE LET k == Len(s.runs) + 1
             s1 == stop([s EXCEPT !.isFinalizingRef = TRUE])
             s2 == [s1 EXCEPT !.runs = Append(@, NewRun(trig, s1.messages, ctimer, at,
                                                        s.sessionState))]
         IN  StopRecorder(s2, k)

\* stopAndFinalizeSession(snap), called from a closure that saw
\* recordingTimer = ctimer and sessionInfo set or not (info).
stopAndFinalizeSession(s, trig, snap, ctimer, at, info) ==
    IF s.isFinalizingRef \/ (s.page \in {"A", "D"} /\ ~info) THEN s
    ELSE LET k == Len(s.runs) + 1
             s1 == [s EXCEPT !.isFinalizingRef = TRUE,
                             !.runs = Append(@, NewRun(trig, snap, ctimer, at, s.sessionState))]
         IN  StopRecorder(stop(s1), k)

\* The bound on guard-passing invocations.
CanRun(s) == s.isFinalizingRef \/ Len(s.runs) < MaxRuns


(***************************************************************************)
(* The exploration: new events from the user, the vendor and the browser   *)
(* are taken in the first and in the last seconds of the countdown and     *)
(* after a finalizer has run; in between the countdown only ticks.         *)
(***************************************************************************)
Explored(s) ==
    \/ s.runs # <<>>
    \/ s.recordingTimer >= Budget - EarlyWindow
    \/ s.recordingTimer <= LateWindow

\* Connect attempts are explored until the first finalizer run.
ConnectExplored(s) == Explored(s) /\ s.runs = <<>>

\* Nothing is in flight.
Settled(s) ==
    /\ \A c \in 1..Len(s.connects) : s.connects[c].pc = "done"
    /\ s.stopsPending = 0
    /\ ~s.playPending
    /\ s.mediaPc # "asking"
    /\ ~s.recorder.flush

\* Apply a handler's result: run the effects of the render it caused.
Step(next) == \E s \in {next} : Becomes(Effects(State, s))

\* A failure or an unexpected event: at most MaxFaults of them are explored.
Fault(ok) == IF ok THEN State ELSE [State EXCEPT !.faults = @ + 1]
MayFail(ok) == ok \/ faults < MaxFaults

(***************************************************************************)
(* Permission: the promise of getUserMedia settles.                         *)
(***************************************************************************)
\* C returns without keeping the stream when its effect was cleaned up.
MediaGranted ==
    /\ mediaPc = "asking"
    /\ LET s == State IN
       IF s.page = "C" /\ ~s.mounted
       THEN Step([s EXCEPT !.mediaPc = "granted", !.tracksLive = TRUE])
       ELSE Step([s EXCEPT !.mediaPc = "granted",
                           !.tracksLive = TRUE,
                           !.localUserStreamRef = TRUE,
                           !.hasUserMediaPermission = TRUE,
                           !.showAutoplayBlockedMessage =
                               IF s.page \in {"R", "B"} THEN FALSE ELSE @])

\* C only logs the error.
MediaDenied ==
    /\ mediaPc = "asking" /\ MayFail(FALSE)
    /\ LET s == Fault(FALSE) IN
       IF s.page = "C" THEN Step([s EXCEPT !.mediaPc = "denied"])
       ELSE Step([s EXCEPT !.mediaPc = "denied",
                           !.hasUserMediaPermission = FALSE,
                           !.showAutoplayBlockedMessage = TRUE])

(***************************************************************************)
(* Connecting.  A call of startHeyGenSession is                             *)
(*   [pc, voice, st, tm, av, err]:                                          *)
(* pc is "token", "start", "voice" or "done"; st and tm are sessionState   *)
(* and recordingTimer as its closure saw them; av is the avatar it made;   *)
(* err tells the error its catch block got ("" for none).                  *)
(***************************************************************************)
Finished ==
    [pc |-> "done", voice |-> FALSE, st |-> INACTIVE, tm |-> Budget, av |-> 0,
     err |-> ""]

AlreadyActive == "There is already an active session"

\* What a finished call keeps of the error it caught: that the hook's
\* start() refused it, or that something else failed.
Failure(kind) == IF kind = AlreadyActive THEN kind ELSE "Error"

\* The catch and finally blocks of startHeyGenSession.  R and B show the
\* blocked message only for NotAllowedError and "Microphone access denied",
\* A, C and D always; R, B and C also stop the avatar and the camera.
ConnectFailed(s, c, kind) ==
    LET s1 == [s EXCEPT !.connects[c] = [Finished EXCEPT !.err = Failure(kind)],
                        !.isAttemptingAutoStart = FALSE,
                        !.showAutoplayBlockedMessage =
                            IF s.page \in {"R", "B"}
                            THEN (IF kind \in {"NotAllowedError", "Microphone access denied"}
                                  THEN TRUE ELSE @)
                            ELSE TRUE]
    IN  IF s.page \in {"R", "B", "C"} THEN stopUserCameraRecording(stop(s1)) ELSE s1

\* A startHeyGenSession that does not test the permission.
\* C22_NoConnectWithoutPermission fails for it.
startHeyGenSessionUnguarded(s, voice) ==
    [s EXCEPT !.isAttemptingAutoStart = TRUE,
              !.connects = Append(@, [pc |-> "token", voice |-> voice,
                                      st |-> s.sessionState,
                                      tm |-> s.recordingTimer,
                                      av |-> 0, err |-> ""])]

\* startHeyGenSession(startWithVoice), up to await fetchAccessToken().
startHeyGenSession(s, voice) ==
    LET s1 == IF s.page \in {"R", "B"}
              THEN [s EXCEPT !.showAutoplayBlockedMessage = FALSE]
              ELSE s
    IN  IF ~s.hasUserMediaPermission THEN s1
        ELSE [s1 EXCEPT !.isAttemptingAutoStart = TRUE,
                        !.connects = Append(@, [pc |-> "token", voice |-> voice,
                                                st |-> s.sessionState,
                                                tm |-> s.recordingTimer,
                                                av |-> 0, err |-> ""])]

\* The start buttons: shown when INACTIVE and not blocked, disabled while
\* attempting or without permission.
ClickStart ==
    /\ ControlsRendered(State) /\ ConnectExplored(State)
    /\ sessionState = INACTIVE
    /\ ~showAutoplayBlockedMessage
    /\ ~isAttemptingAutoStart /\ hasUserMediaPermission
    /\ Len(connects) < MaxAttempts
    /\ \E voice \in BOOLEAN : Step(startHeyGenSession(State, voice))

\* handleAutoplayRetry: R and B clear the message and then test the
\* permission, A and D test the permission first, C calls
\* startHeyGenSession(true) at once.
handleAutoplayRetry(s) ==
    CASE s.page \in {"R", "B"} ->
            startHeyGenSession([s EXCEPT !.showAutoplayBlockedMessage = FALSE], TRUE)
      [] s.page \in {"A", "D"} ->
            IF s.hasUserMediaPermission
            THEN startHeyGenSession([s EXCEPT !.showAutoplayBlockedMessage = FALSE], TRUE)
            ELSE s
      [] OTHER -> startHeyGenSession(s, TRUE)

\* The retry button: shown while the blocked message is.
ClickRetry ==
    /\ ControlsRendered(State) /\ ConnectExplored(State)
    /\ showAutoplayBlockedMessage
    /\ Len(connects) < MaxAttempts
    /\ Step(handleAutoplayRetry(State))

\* start(config) of the hook, up to await createStartAvatar(): it throws
\* when the sessionState of its closure is not INACTIVE (the error is put
\* down in the call's record), else it sets CONNECTING and registers the
\* hook's listeners.
startAvatar(s, c) ==
    LET n == Len(s.avatars) IN
    IF s.connects[c].st # INACTIVE THEN [s EXCEPT !.connects[c].err = AlreadyActive]
    ELSE [s EXCEPT !.sessionState = CONNECTING,
                   !.avatars[n].hook = TRUE,
                   !.avatars[n].talk = TRUE,
                   !.avatars[n].status = "starting",
                   !.connects[c].pc = "start",
                   !.connects[c].av = n]

\* await startAvatar(config) in startHeyGenSession: what it throws goes to
\* the catch block.
start(s, c) ==
    LET s1 == startAvatar(s, c) IN
    IF s1.connects[c].err # "" THEN ConnectFailed(s, c, AlreadyActive) ELSE s1

\* fetchAccessToken() settles: initAvatar, the page's listeners, startAvatar.
TokenSettles ==
    \E c \in 1..Len(connects) : \E ok \in BOOLEAN :
        /\ connects[c].pc = "token" /\ MayFail(ok)
        /\ LET s == Fault(ok) IN
           IF ok THEN Step(start(init(s, s.connects[c].tm), c))
           ELSE Step(ConnectFailed(s, c, "Error"))

\* createStartAvatar() settles; then startVoiceChat() is awaited if asked.
CreateSettles ==
    \E c \in 1..Len(connects) : \E ok \in BOOLEAN :
        /\ connects[c].pc = "start" /\ MayFail(ok)
        /\ LET s == Fault(ok)
               a == s.connects[c].av
           IN  IF ok
               THEN IF s.connects[c].voice
                    THEN Step([s EXCEPT !.connects[c].pc = "voice"])
                    ELSE Step([s EXCEPT !.connects[c] = Finished,
                                        !.isAttemptingAutoStart = FALSE])
               ELSE Step(ConnectFailed(
                        [s EXCEPT !.avatars[a].status =
                                      IF @ = "starting" THEN "closed" ELSE @],
                        c, "Error"))

VoiceErrors == {"NotAllowedError", "Microphone access denied", "Error"}

\* startVoiceChat() settles.
VoiceSettles ==
    \E c \in 1..Len(connects) :
        /\ connects[c].pc = "voice"
        /\ \/ Step([State EXCEPT !.connects[c] = Finished,
                                 !.isAttemptingAutoStart = FALSE])
           \/ \E kind \in VoiceErrors :
                  MayFail(FALSE) /\ Step(ConnectFailed(Fault(FALSE), c, kind))


(***************************************************************************)
(* Events of the vendor SDK on avatar i.  The listeners the page registers *)
(* (before startAvatar) run before those of the hook.                       *)
(***************************************************************************)
\* The page's STREAM_READY listener.
pageStreamReady(s) ==
    CASE s.page \in {"R", "B"} -> [s EXCEPT !.showAutoplayBlockedMessage = FALSE,
                                            !.isAttemptingAutoStart = FALSE]
      [] s.page \in {"A", "D"} -> [s EXCEPT !.isAttemptingAutoStart = FALSE]
      [] OTHER -> s

StreamReady ==
    \E i \in 1..Len(avatars) :
        /\ avatars[i].status = "starting"
        /\ LET s1 == pageStreamReady([State EXCEPT !.avatars[i].status = "ready"])
           IN  Step(IF avatars[i].hook THEN handleStream(s1) ELSE s1)

\* The recordingTimer the page's STREAM_DISCONNECTED listener sees: that of
\* the render in which startHeyGenSession was called (useCallback in R, A
\* and D), the latest one in B and C (useMemoizedFn).
DisconnectTimer(s, i) ==
    IF s.page \in {"B", "C"} THEN s.recordingTimer ELSE s.avatars[i].ptimer

\* The page's STREAM_DISCONNECTED listener.
pageStreamDisconnected(s, i) ==
    IF ~s.isFinalizingRef
    THEN stopAndFinalizeSession(s, "disconnect", s.messages,
                                DisconnectTimer(s, i), s.recordingTimer, TRUE)
    ELSE s

\* The hook's listener (stop) runs if it is still registered; whether it
\* runs when the page's listener removed it during the dispatch is the
\* vendor's emitter's choice.
StreamDisconnected ==
    \E i \in 1..Len(avatars) : \E removedRuns \in BOOLEAN :
        /\ avatars[i].status \in {"ready", "closing"}
        /\ Explored(State) /\ CanRun(State)
        /\ MayFail(avatars[i].status = "closing")
        /\ LET s0 == Fault(avatars[i].status = "closing")
               s1 == pageStreamDisconnected([s0 EXCEPT !.avatars[i].status = "closed"], i)
               runsStop == avatars[i].hook /\ (s1.avatars[i].hook \/ removedRuns)
           IN  /\ removedRuns => (avatars[i].hook /\ ~s1.avatars[i].hook)
               /\ Step(IF runsStop THEN stop(s1) ELSE s1)

\* avatarRef.current.stopAvatar() of a stop() call settles.
StopSettles ==
    \E ok \in BOOLEAN :
        /\ stopsPending > 0 /\ MayFail(ok)
        /\ LET s1 == [Fault(ok) EXCEPT !.stopsPending = @ - 1]
           IN  Step(IF ok THEN [s1 EXCEPT !.sessionState = INACTIVE] ELSE s1)

\* avatarVideo.play() settles.  R and B clear the blocked message on
\* success and, on failure, show it and stop the avatar; A and D show it;
\* C ignores the failure.
AutoplaySettles ==
    \E ok \in BOOLEAN :
        /\ playPending /\ MayFail(ok)
        /\ LET s1 == [Fault(ok) EXCEPT !.playPending = FALSE]
           IN  CASE s1.page \in {"R", "B"} ->
                       IF ok THEN Step([s1 EXCEPT !.showAutoplayBlockedMessage = FALSE])
                       ELSE Step(stop([s1 EXCEPT !.showAutoplayBlockedMessage = TRUE]))
                 [] s1.page \in {"A", "D"} ->
                       IF ok THEN Step(s1)
                       ELSE Step([s1 EXCEPT !.showAutoplayBlockedMessage = TRUE])
                 [] OTHER -> Step(s1)

(***************************************************************************)
(* Talking-message events.                                                  *)
(***************************************************************************)
SegTexts == {<<"h", "i">>}
TaskIds == {"t1"}
EndTexts == {<<>>}
Senders == {CLIENT, AVATAR}

\* The detail the page's listeners hand to the context: event.detail in R,
\* A and D, { message } without a task_id in C.
PageDetail(s, detail) ==
    IF s.page = "C" THEN [message |-> detail.message, task_id |-> ""] ELSE detail

AccOf(s) == Acc(s.messages, s.currentSenderRef, s.currentMessageIdRef)

WithAcc(s, acc) ==
    [s EXCEPT !.messages = acc.m, !.currentSenderRef = acc.s, !.currentMessageIdRef = acc.i]

Talking(acc, sender, detail, t) ==
    IF sender = CLIENT THEN handleUserTalkingMessage(acc, detail, t)
    ELSE handleStreamingTalkingMessage(acc, detail, t)

\* USER_TALKING_MESSAGE / AVATAR_TALKING_MESSAGE on avatar i: the page's
\* listener (none in B), then the hook's.
DeliverTalking(s, i, sender, detail) ==
    LET a1 == IF s.page = "B" THEN AccOf(s)
              ELSE Talking(AccOf(s), sender, PageDetail(s, detail), s.now)
        a2 == IF s.avatars[i].talk THEN Talking(a1, sender, detail, s.now) ELSE a1
    IN  WithAcc(s, a2)

\* USER_END_MESSAGE / AVATAR_END_MESSAGE on avatar i: the page's listener
\* (R, A, C) hands the event to the talking-message handler, the hook's is
\* handleEndMessage.
DeliverEnd(s, i, sender, detail) ==
    LET a1 == IF s.page \in {"R", "A", "C"}
              THEN Talking(AccOf(s), sender, PageDetail(s, detail), s.now)
              ELSE AccOf(s)
        a2 == IF s.avatars[i].talk THEN handleEndMessage(a1) ELSE a1
    IN  WithAcc(s, a2)

\* Talking events are explored in the last seconds of the countdown, until
\* the first finalizer run.
TalkExplored(s) == s.runs = <<>> /\ s.recordingTimer <= LateWindow

TalkingMessage ==
    \E i \in 1..Len(avatars) : \E sender \in Senders :
    \E text \in SegTexts : \E task \in TaskIds :
        /\ avatars[i].status \in {"ready", "closing"}
        /\ segments < MaxSegments /\ TalkExplored(State)
        /\ Step(DeliverTalking([State EXCEPT !.segments = @ + 1], i, sender,
                               [message |-> text, task_id |-> task]))

EndMessage ==
    \E i \in 1..Len(avatars) : \E sender \in Senders :
    \E text \in EndTexts : \E task \in TaskIds :
        /\ avatars[i].status \in {"ready", "closing"}
        /\ segments < MaxSegments /\ TalkExplored(State)
        /\ Step(DeliverEnd([State EXCEPT !.segments = @ + 1], i, sender,
                           [message |-> text, task_id |-> task]))


(***************************************************************************)
(* Events of the MediaRecorder.                                             *)
(***************************************************************************)
\* A timeslice chunk: only B calls recorder.start(1000).
RecorderData ==
    /\ page = "B" /\ recorder.state = "recording" /\ tracksLive
    /\ recordedChunks < MaxChunks /\ Explored(State)
    /\ Step([State EXCEPT !.recordedChunks = @ + 1])

\* The recorder stops (after stop(), or because its tracks ended): the
\* final dataavailable event, pushed when its size is not 0, then the stop
\* event, whose handler resumes the run that awaits it (C and D).
RecorderFlush ==
    \E size \in {0, 1} :
        /\ recorder.flush \/ (recorder.state = "recording" /\ ~tracksLive)
        /\ MayFail(size > 0)
        /\ LET k == recorder.onstop
               s1 == [Fault(size > 0) EXCEPT !.recorder = [state |-> "inactive",
                                                 flush |-> FALSE, onstop |-> 0],
                                   !.recordedChunks = @ + size]
           IN  IF k # 0 /\ s1.runs[k].pc = "onstop"
               THEN Step(AfterRecorderWait(s1, k))
               ELSE Step(s1)

(***************************************************************************)
(* The countdown.                                                           *)
(***************************************************************************)
\* The interval callback: setRecordingTimer(prev => ...).  The finalizer it
\* calls is that of the latest render, which saw recordingTimer = prev.
tick(s) ==
    LET prev == s.recordingTimer IN
    IF prev <= 1
    THEN [stopAndFinalizeSession([s EXCEPT !.interval = FALSE], "timer", s.messages,
                                 prev, 0, HasSessionInfo(s))
             EXCEPT !.recordingTimer = 0]
    ELSE [s EXCEPT !.recordingTimer = prev - 1]

\* Ticks are explored without limit before the first finalizer run (in the
\* middle of the countdown once nothing is in flight), and MaxLateTicks
\* times after it.
TickExplored(s) ==
    IF s.runs # <<>> THEN s.lateTicks < MaxLateTicks
    ELSE \/ s.recordingTimer - 1 >= Budget - EarlyWindow
         \/ s.recordingTimer <= LateWindow + 1
         \/ Settled(s)

Tick ==
    /\ interval
    /\ TickExplored(State) /\ CanRun(State)
    /\ Step(tick([State EXCEPT !.now = @ + 1,
                               !.lateTicks = IF runs # <<>> THEN @ + 1 ELSE @]))

(***************************************************************************)
(* The other triggers of the finalizer.                                     *)
(***************************************************************************)
\* The "Finalizar Sesión" button, rendered while CONNECTED.
ClickFinalize ==
    /\ ControlsRendered(State) /\ Explored(State) /\ CanRun(State)
    /\ sessionState = CONNECTED
    /\ Step(stopAndFinalizeSession(State, "manual", messages, recordingTimer,
                                   recordingTimer, HasSessionInfo(State)))

\* The cleanup of the getUserMedia effect, which runs before useUnmount.
mediaCleanup(s) ==
    CASE s.page = "R" ->
            IF s.isFinalizingRef THEN s
            ELSE LET s1 == IF s.mediaRecorderRef /\ s.recorder.state # "inactive"
                           THEN [s EXCEPT !.recorder = RecorderStop(@),
                                          !.mediaRecorderRef = FALSE]
                           ELSE s
                 IN  stop(stopUserCameraRecording(s1))
      [] s.page = "B" -> IF s.isFinalizingRef THEN s ELSE stopUserCameraRecording(s)
      [] s.page = "C" -> IF s.localUserStreamRef THEN StopTracks(s) ELSE s
      [] OTHER -> s

\* The useUnmount callback; it sees the sessionState of the last render.
onUnmount(s, rendered) ==
    LET finalize == stopAndFinalizeSession(s, "unmount", rendered.messages,
                                           rendered.recordingTimer,
                                           rendered.recordingTimer,
                                           HasSessionInfo(s))
    IN  CASE s.page \in {"A", "D"} -> IF ~s.isFinalizingRef THEN finalize ELSE s
          [] s.isFinalizingRef -> s
          [] rendered.sessionState = CONNECTED -> finalize
          [] s.page = "R" ->
                LET s1 == IF s.mediaRecorderRef /\ s.recorder.state # "inactive"
                          THEN [s EXCEPT !.recorder = RecorderStop(@),
                                         !.mediaRecorderRef = FALSE]
                          ELSE s
                IN  stop(stopUserCameraRecording(s1))
          [] OTHER -> stop(stopUserCameraRecording(s))

\* The page is unmounted: by the navigation, or by the user leaving.
Unmount ==
    /\ mounted /\ Explored(State) /\ CanRun(State)
    /\ MayFail(navs > 0)
    /\ Becomes([onUnmount(mediaCleanup(Fault(navs > 0)), State)
                   EXCEPT !.mounted = FALSE, !.interval = FALSE])

(***************************************************************************)
(* The finalizer's continuations.                                           *)
(***************************************************************************)
\* R: the 100 ms timeout it awaits instead of the stop event.
TimeoutFires ==
    \E k \in 1..Len(runs) :
        /\ runs[k].pc = "timeout"
        /\ Step(AfterRecorderWait(State, k))

\* B: updateSimulatedProgress(...) resolves.
ProgressDone ==
    \E k \in 1..Len(runs) :
        \/ /\ runs[k].pc = "preUpload"
           /\ Step(PostUpload(State, k))
        \/ /\ runs[k].pc = "preLog"
           /\ Step(PostLog(State, k))
        \/ /\ runs[k].pc = "preNav"
           /\ Step([State EXCEPT !.runs[k].pc = "done", !.navs = @ + 1])

Outcomes == {"ok", "non2xx", "rejected"}

\* An upload handler that does not keep the key of the answer.
\* C26_LogAfterUpload fails for it.
UploadedWithoutKey(s, k) ==
    IF s.page = "B" THEN [s EXCEPT !.runs[k].pc = "preLog"] ELSE PostLog(s, k)

\* After a successful upload: the log request (B first awaits the progress bar).
Uploaded(s, k) ==
    LET s1 == [s EXCEPT !.runs[k].key = "key"]
    IN  IF s.page = "B" THEN [s1 EXCEPT !.runs[k].pc = "preLog"] ELSE PostLog(s1, k)

\* A non-2xx answer to the upload: R and B alert, reset the guard and
\* return; A, C and D throw into the catch block.
UploadRefused(s, k) ==
    IF s.page \in {"R", "B"}
    THEN Leave([s EXCEPT !.runs[k].alerted = TRUE, !.isFinalizingRef = FALSE], k)
    ELSE Caught(s, k)

\* A non-2xx answer to the log request: R and B alert, C throws into the
\* catch block, A and D do not look at the answer.
LogRefused(s, k) ==
    IF s.page \in {"R", "B", "C"}
    THEN Leave([s EXCEPT !.runs[k].alerted = TRUE], k)
    ELSE Leave(s, k)

UploadSettles ==
    \E k \in 1..Len(runs) : \E o \in Outcomes :
        /\ runs[k].pc = "upload" /\ MayFail(o = "ok")
        /\ Step(CASE o = "ok" -> Uploaded(State, k)
                  [] o = "non2xx" -> UploadRefused(Fault(FALSE), k)
                  [] OTHER -> Caught(Fault(FALSE), k))

LogSettles ==
    \E k \in 1..Len(runs) : \E o \in Outcomes :
        /\ runs[k].pc = "log" /\ MayFail(o = "ok")
        /\ Step(CASE o = "ok" -> Leave(State, k)
                  [] o = "non2xx" -> LogRefused(Fault(FALSE), k)
                  [] OTHER -> Caught(Fault(FALSE), k))

\* The session page after the first render and its mount effects.
PageInit ==
    /\ page \in Pages
    /\ userData \in DataCases(page)
    /\ mounted = TRUE
    /\ sessionState = INACTIVE /\ stream = FALSE
    /\ avatars = <<>> /\ stopsPending = 0
    /\ messages = <<>> /\ currentSenderRef = NoSender /\ currentMessageIdRef = NoId
    /\ now = 0 /\ segments = 0 /\ heard = <<>>
    /\ hasUserMediaPermission = FALSE
    /\ showAutoplayBlockedMessage = FALSE
    /\ isAttemptingAutoStart = FALSE
    /\ recordingTimer = Budget /\ interval = FALSE
    /\ isFinalizingRef = FALSE /\ connects = <<>>
    /\ mediaPc = IF AsksMediaAtMount(page, userData) THEN "asking" ELSE "idle"
    /\ localUserStreamRef = FALSE /\ tracksLive = FALSE /\ playPending = FALSE
    /\ mediaRecorderRef = FALSE /\ recorder = NoRecorder /\ recordedChunks = 0
    /\ runs = <<>> /\ uploads = <<>> /\ logs = <<>>
    /\ navs = IF page \in {"A", "D"} /\ ~AsksMediaAtMount(page, userData) THEN 1 ELSE 0
    /\ lateTicks = 0 /\ faults = 0

\* The dashboard is not open.
DashIdle == sessions = <<>> /\ records = <<>>

\* HomePage after its first render: useState('') four times.
NoCookies == [c \in {} |-> ""]
LoginIdle ==
    /\ fields = [name |-> "", email |-> "", token |-> ""]
    /\ error = ""
    /\ cookieJar = NoCookies
    /\ validations = <<>> /\ pushed = <<>>

\* No request has reached the middleware.
NoRequest == [pathname |-> <<>>, auth |-> [type |-> "null"]]
NoResponse == [kind |-> "none", to |-> <<>>, cookies |-> NoCookies]
MwIdle == req = NoRequest /\ res = NoResponse

\* The session page is open; the other pages are not.
Init == PageInit /\ DashIdle /\ LoginIdle /\ MwIdle

Next ==
    \/ MediaGranted \/ MediaDenied
    \/ ClickStart \/ ClickRetry
    \/ TokenSettles \/ CreateSettles \/ VoiceSettles
    \/ StreamReady \/ StreamDisconnected \/ StopSettles \/ AutoplaySettles
    \/ TalkingMessage \/ EndMessage
    \/ RecorderData \/ RecorderFlush
    \/ Tick \/ ClickFinalize \/ Unmount
    \/ TimeoutFires \/ ProgressDone \/ UploadSettles \/ LogSettles

Spec == Init /\ [][Next]_vars

(***************************************************************************)
(* The transcript accumulator on its own: the handlers of context.tsx are  *)
(* called with every text, speaker and task id of a small alphabet, in     *)
(* every order, and each call is recorded in heard.                        *)
(***************************************************************************)
Hola == <<"H", "o", "l", "a">>
Doctora == <<"d", "o", "c", "t", "o", "r", "a">>
BuenosDias == <<"B", "u", "e", "n", "o", "s", " ", "d", "i", "a", "s">>

\* Nothing, whitespace only, a word, a padded word, a text that holds both
\* words, a sentence end, and the three texts of the greeting.
AccTexts ==
    {<<>>, <<" ", "\n">>, <<"a">>, <<" ", "b", " ">>, <<"a", "b">>, <<"a", ".">>,
     Hola, Doctora, BuenosDias}

\* detail.task_id: two utterances, or absent.
AccTaskIds == {"U1", "A1", ""}

Heard(kind, sender, detail, t) ==
    [kind |-> kind, sender |-> sender, text |-> detail.message,
     id |-> MessageIdOf(detail, t)]

\* USER_TALKING_MESSAGE or AVATAR_TALKING_MESSAGE reaches its handler.
AccTalking ==
    \E sender \in Senders : \E text \in AccTexts : \E task \in AccTaskIds :
        LET detail == [message |-> text, task_id |-> task] IN
        /\ Len(heard) < MaxHeard
        /\ Becomes(WithAcc([State EXCEPT !.heard =
                                Append(@, Heard("segment", sender, detail, now))],
                           Talking(AccOf(State), sender, detail, now)))

\* USER_END_MESSAGE or AVATAR_END_MESSAGE reaches handleEndMessage.
AccEnd ==
    /\ Len(heard) < MaxHeard
    /\ Becomes(WithAcc([State EXCEPT !.heard =
                            Append(@, [kind |-> "end", sender |-> NoSender,
                                       text |-> <<>>, id |-> NoId])],
                       handleEndMessage(AccOf(State))))

\* A millisecond passes.
AccClock ==
    /\ now < MaxClock
    /\ Becomes([State EXCEPT !.now = @ + 1])

AccInit == Init /\ page = "R" /\ userData = FieldsRead("R")

AccNext == AccTalking \/ AccEnd \/ AccClock

AccSpec == AccInit /\ [][AccNext]_vars

(***************************************************************************)
(* The dashboard: DashboardClient makes its records of the sessions the    *)
(* server sent.  A value of video_s3 is null, undefined or a string.       *)
(***************************************************************************)
JsNull == [type |-> "null"]
JsUndefined == [type |-> "undefined"]
JsString(text) == [type |-> "string", text |-> text]

SENTINELS == {"Video_Not_Available_Error", "Video_Processing_Failed", "Video_Missing_Error"}

\* The truthiness of a value: null, undefined and "" are falsy.
Truthy(v) == v.type = "string" /\ v.text # ""

\* A video_s3 that is truthy and no sentinel is kept as it is.
VideoS3WithSentinels(v) == IF Truthy(v) THEN v ELSE JsNull

\* s.video_s3 && !SENTINELS.includes(s.video_s3) ? s.video_s3 : null
VideoS3(v) == IF Truthy(v) /\ v.text \notin SENTINELS THEN v ELSE JsNull

\* sessions.map(s => ({...s, video_s3: ...})): the other fields the map
\* rewrites (created_at, comments_public) do not depend on video_s3.
Records(list) == [i \in DOMAIN list |-> [list[i] EXCEPT !.video_s3 = VideoS3(@)]]

MaxSessions == 2

\* What the server can send as video_s3: nothing, the empty string, the
\* sentinels, a URL, and strings that differ from a sentinel by case or by
\* a trailing space.
VideoValues ==
    {JsNull, JsUndefined, JsString("")}
    \cup {JsString(t) : t \in SENTINELS}
    \cup {JsString("https://bucket/s1.webm"), JsString("video_missing_error"),
          JsString("Video_Missing_Error ")}

SessionLists ==
    UNION {[1..n -> [id : {1}, video_s3 : VideoValues]] : n \in 0..MaxSessions}

\* The dashboard is requested: the server passes initialData.
DashInit ==
    /\ PageInit /\ page = "R" /\ userData = FieldsRead("R")
    /\ LoginIdle /\ MwIdle
    /\ sessions \in SessionLists
    /\ records = <<>>

\* DashboardClient renders.
DashRender ==
    /\ records' = Records(sessions)
    /\ UNCHANGED <<sessionVars, loginVars, mwVars, sessions>>

DashNext == DashRender

DashSpec == DashInit /\ [][DashNext]_vars

(***************************************************************************)
(* The login page (HomePage): its form, its handleSubmit and the answers   *)
(* to POST /validate_user.  A call of handleSubmit that sent the request   *)
(* is [name, email, token, pc, answer]: the inputs as its closure saw      *)
(* them, pc "sent" or "done", and the answer it got ("" before it came).   *)
(***************************************************************************)
MaxSubmits == 2

\* What the user can have typed in an input.
Typed(f) ==
    CASE f = "name" -> {"", "Ana"}
      [] f = "email" -> {"", "ana@x"}
      [] OTHER -> {"", "t1", "t2"}

Login == [fields |-> fields, error |-> error, cookieJar |-> cookieJar,
          validations |-> validations, pushed |-> pushed]

LoginBecomes(next) ==
    \E l \in {next} :
    /\ fields' = l.fields /\ error' = l.error /\ cookieJar' = l.cookieJar
    /\ validations' = l.validations /\ pushed' = l.pushed
    /\ UNCHANGED <<sessionVars, dashVars, mwVars>>

\* Cookies.set(name, value)
SetCookie(jar, n, v) == [c \in DOMAIN jar \cup {n} |-> IF c = n THEN v ELSE jar[c]]

\* handleSubmit, up to its await: the error is cleared, and the request is
\* sent unless an input is empty.
handleSubmit(l) ==
    LET f == l.fields IN
    IF f.name = "" \/ f.email = "" \/ f.token = ""
    THEN [l EXCEPT !.error = "Por favor, completa todos los campos."]
    ELSE [l EXCEPT !.error = "",
                   !.validations = Append(@, [name |-> f.name, email |-> f.email,
                                              token |-> f.token, pc |-> "sent",
                                              answer |-> ""])]

\* A handleSubmit that stores the cookies and navigates whatever the answer.
\* C36_LoginAfterSuccess fails for it.
validateSettledIgnoringStatus(l, v, outcome) ==
    LET r == l.validations[v] IN
    [l EXCEPT !.validations[v].pc = "done",
              !.cookieJar = SetCookie(SetCookie(SetCookie(@, "user_name", r.name),
                                                "user_email", r.email),
                                      "user_token", r.token),
              !.pushed = Append(@, "/dashboard")]

\* handleSubmit after its await: response.ok, a non-2xx response (its text
\* is read and shown), or a rejected fetch.
validateSettled(l, v, outcome) ==
    LET r == l.validations[v] IN
    CASE outcome = "ok" ->
            [l EXCEPT !.validations[v].pc = "done",
                      !.cookieJar = SetCookie(SetCookie(SetCookie(@, "user_name", r.name),
                                                        "user_email", r.email),
                                              "user_token", r.token),
                      !.pushed = Append(@, "/dashboard")]
      [] outcome = "non2xx" ->
            [l EXCEPT !.validations[v].pc = "done",
                      !.error = "Error de acceso"]
      [] OTHER ->
            [l EXCEPT !.validations[v].pc = "done",
                      !.error = "Error de red al intentar iniciar sesión. Intenta de nuevo."]

\* The user types in an input.
LoginType ==
    \E f \in {"name", "email", "token"} : \E v \in Typed(f) :
        /\ fields[f] # v
        /\ LoginBecomes([Login EXCEPT !.fields[f] = v])

\* The form is submitted.
LoginSubmit ==
    /\ Len(validations) < MaxSubmits
    /\ LoginBecomes(handleSubmit(Login))

\* POST /validate_user settles.
LoginSettles ==
    \E v \in 1..Len(validations) : \E outcome \in Outcomes :
        /\ validations[v].pc = "sent"
        /\ LoginBecomes(validateSettled([Login EXCEPT !.validations[v].answer = outcome],
                                        v, outcome))

LoginInit == PageInit /\ page = "R" /\ userData = FieldsRead("R")
             /\ DashIdle /\ LoginIdle /\ MwIdle

LoginNext == LoginType \/ LoginSubmit \/ LoginSettles

LoginSpec == LoginInit /\ [][LoginNext]_vars

(***************************************************************************)
(* The middleware.  A request is [pathname, auth]: the path as a sequence  *)
(* of characters and searchParams.get('auth'), null or a string.  What the *)
(* middleware returns is [kind, to, cookies]: "next" (it returned nothing, *)
(* the request goes on) or "redirect" to a path with the cookies it set.   *)
(***************************************************************************)
DashboardPath == <<"/", "d", "a", "s", "h", "b", "o", "a", "r", "d">>
SessionPath ==
    <<"/", "i", "n", "t", "e", "r", "a", "c", "t", "i", "v", "e", "-",
      "s", "e", "s", "s", "i", "o", "n">>
RootPath == <<"/">>

StartsWith(s, t) == Len(s) >= Len(t) /\ SubSeq(s, 1, Len(t)) = t

\* config.matcher: '/dashboard/:path*' and '/interactive-session/:path*'.
Matcher(pathname) ==
    \E root \in {DashboardPath, SessionPath} :
        pathname = root \/ StartsWith(pathname, root \o <<"/">>)

JWT_SECRET == "secret"

\* What a token string holds: the payload, the key it was signed with and
\* whether it has expired; "garbage" is no JWT at all.
Decode(text) ==
    LET ana == [name |-> "Ana", email |-> "ana@x", scenario |-> "Entrevista"]
        luis == [name |-> "Luis", email |-> "luis@x", scenario |-> "Visita"]
        jwt(p, k, e) == [wellFormed |-> TRUE, payload |-> p, key |-> k, expired |-> e]
    IN  CASE text = "ana.ok" -> jwt(ana, JWT_SECRET, FALSE)
          [] text = "ana.expired" -> jwt(ana, JWT_SECRET, TRUE)
          [] text = "ana.forged" -> jwt(ana, "other", FALSE)
          [] text = "luis.ok" -> jwt(luis, JWT_SECRET, FALSE)
          [] text = "luis.expired" -> jwt(luis, JWT_SECRET, TRUE)
          [] text = "luis.forged" -> jwt(luis, "other", FALSE)
          [] OTHER -> [wellFormed |-> FALSE, payload |-> ana, key |-> "", expired |-> FALSE]

\* jwt.verify(token, secret) returns the payload (it throws otherwise).
Verifies(text, secret) ==
    LET d == Decode(text) IN d.wellFormed /\ d.key = secret /\ ~d.expired

PassThrough == [kind |-> "next", to |-> <<>>, cookies |-> NoCookies]
Redirect(to, cookies) == [kind |-> "redirect", to |-> to, cookies |-> cookies]

\* res.cookies.set(...) four times.
UserCookies(text) ==
    LET payload == Decode(text).payload IN
    SetCookie(SetCookie(SetCookie(SetCookie(NoCookies, "user_name", payload.name),
                                  "user_email", payload.email),
                        "user_token", text),
              "user_scenario", payload.scenario)

\* A middleware that takes the payload without verifying the token.
\* C37_MiddlewareVerifies fails for it.
middlewareDecoding(r) ==
    IF ~StartsWith(r.pathname, DashboardPath) THEN PassThrough
    ELSE IF ~Truthy(r.auth) THEN PassThrough
    ELSE Redirect(DashboardPath, UserCookies(r.auth.text))

\* middleware(req)
middleware(r) ==
    IF ~StartsWith(r.pathname, DashboardPath) THEN PassThrough
    ELSE IF ~Truthy(r.auth) THEN PassThrough
    ELSE IF Verifies(r.auth.text, JWT_SECRET)
         THEN Redirect(DashboardPath, UserCookies(r.auth.text))
         ELSE Redirect(RootPath, NoCookies)

\* The paths and the auth parameters a request can have: the root, the
\* dashboard and a page below it, a path that only begins like it, the
\* session page; no parameter, an empty one, no JWT, and the tokens.
Pathnames ==
    {RootPath, DashboardPath, DashboardPath \o <<"/">>, DashboardPath \o <<"/", "s">>,
     DashboardPath \o <<"x">>, SessionPath, SessionPath \o <<"/", "s">>}

AuthValues ==
    {JsNull, JsString(""), JsString("garbage")}
    \cup {JsString(t) : t \in {"ana.ok", "ana.expired", "ana.forged",
                               "luis.ok", "luis.expired", "luis.forged"}}

\* A request arrives.
MwInit ==
    /\ PageInit /\ page = "R" /\ userData = FieldsRead("R")
    /\ DashIdle /\ LoginIdle
    /\ req \in [pathname : Pathnames, auth : AuthValues]
    /\ res = NoResponse

\* The middleware runs for the paths of its matcher; any other request
\* goes on without it.
MwHandle ==
    /\ res = NoResponse
    /\ res' = IF Matcher(req.pathname) THEN middleware(req) ELSE PassThrough
    /\ UNCHANGED <<sessionVars, dashVars, loginVars, req>>

MwNext == MwHandle

MwSpec == MwInit /\ [][MwNext]_vars

\* The browser runs every queued task and every awaited request settles:
\* the 100 ms timeout, the progress bar, the two requests, the recorder's
\* stop and the vendor's stopAvatar().
Fairness ==
    /\ WF_vars(TimeoutFires) /\ WF_vars(ProgressDone)
    /\ WF_vars(UploadSettles) /\ WF_vars(LogSettles)
    /\ WF_vars(RecorderFlush) /\ WF_vars(StopSettles)

FairSpec == Spec /\ Fairness

(***************************************************************************)
(* The single-finalization guard.                                           *)
(***************************************************************************)
\* C1: whatever triggers arrive and however they interleave, the finalizer
\* takes effect once: one invocation passes the guard, at most one upload
\* request and at most one log request are issued.
C1_FinalizeOnce ==
    /\ Len(runs) <= 1
    /\ Len(uploads) <= 1
    /\ Len(logs) <= 1

\* C2: isFinalizingRef starts false and, once true, is never false again.
C2_GuardNeverReset ==
    /\ ~isFinalizingRef
    /\ [][isFinalizingRef => isFinalizingRef']_vars

C4_ReadAfterOnstop ==
    \A k \in 1..Len(runs) : runs[k].built => ~runs[k].early

C6_Countdown ==
    /\ recordingTimer = Budget
    /\ [](recordingTimer \in 0..Budget)
    /\ [][recordingTimer' # recordingTimer => recordingTimer' = recordingTimer - 1]_vars
    /\ [][(recordingTimer = 1 /\ recordingTimer' = 0 /\ ~isFinalizingRef)
             => (Len(runs') = Len(runs) + 1 /\ runs'[Len(runs')].trig = "timer")]_vars
    /\ []((\E k \in 1..Len(runs) : runs[k].trig = "timer") => Len(runs) = 1)

\* C7: the duration of a session log is 480 minus recordingTimer at the
\* moment its finalizer run took effect; a session that ran to the expiry of
\* the countdown submits 480.
C7_Duration ==
    /\ \A l \in 1..Len(logs) : logs[l].duration = Budget - runs[logs[l].run].at
    /\ \A l \in 1..Len(logs) :
           (logs[l].run = 1 /\ runs[1].trig = "timer") => logs[l].duration = Budget

\* C8: once a finalizer run has started for a reason other than the expiry
\* of the countdown, recordingTimer does not change any more.
C8_NoTickAfterFinalize ==
    [][(runs # <<>> /\ runs[1].trig # "timer") => recordingTimer' = recordingTimer]_vars

DisconnectsFirst ==
    /\ runs = <<>> /\ sessionState = CONNECTED
    /\ \E i \in 1..Len(avatars) :
           avatars[i].status \in {"ready", "closing"} /\ avatars'[i].status = "closed"

DisconnectedFirst ==
    runs # <<>> /\ runs[1].trig = "disconnect" /\ runs[1].state = CONNECTED

\* C10: such a disconnect starts one finalizer run, on the transcript of
\* that moment; no other run follows; the run's blob holds the recording,
\* the recorder's final chunk included; and sessionState becomes INACTIVE.
C10_Disconnect ==
    /\ [][DisconnectsFirst
             => /\ Len(runs') = 1 /\ runs'[1].trig = "disconnect"
                /\ runs'[1].conv = Transcript(messages, CLIENT)
                /\ runs'[1].avt = Transcript(messages, AVATAR)]_vars
    /\ [](DisconnectedFirst => Len(runs) = 1)
    /\ [](DisconnectedFirst /\ runs[1].built => ~runs[1].early)
    /\ DisconnectedFirst ~> sessionState = INACTIVE

(***************************************************************************)
(* The transcripts.                                                         *)
(***************************************************************************)
\* A finalizer run starts in this step.
RunStarts == Len(runs') = Len(runs) + 1

Hears == Len(heard') = Len(heard) + 1
ev == heard'[Len(heard')]

\* The call is a segment with some text.
HearsSegment == Hears /\ ev.kind = "segment" /\ Trim(ev.text) # <<>>

\* The segment continues the open message: same speaker, same utterance id.
Continues ==
    /\ HearsSegment /\ messages # <<>>
    /\ currentSenderRef = ev.sender /\ currentMessageIdRef = ev.id

LastContent == messages[Len(messages)].content

\* The segment's text is the open message's content or a suffix of it.
SuffixDuplicate == EndsWith(LastContent, Trim(ev.text))

\* The join of the contract: a single space, none after '.', '?', '!' or
\* whitespace.
JoinedWith(content, text) ==
    IF content # <<>> /\ content[Len(content)] \in {".", "?", "!", " ", "\n"}
    THEN content \o text
    ELSE content \o <<" ">> \o text

\* The text is empty or whitespace only.
Blank(text) == \A i \in 1..Len(text) : text[i] \in {" ", "\n"}

MarkerUnchanged == UNCHANGED <<currentSenderRef, currentMessageIdRef>>

\* C12: the segments of one utterance make one message: the first one
\* starts it, and each later one that is not a suffix-duplicate is joined
\* to its content, which no other step of the utterance changes.
C12_OneMessage ==
    /\ [][(HearsSegment /\ ~Continues)
             => /\ Len(messages') = Len(messages) + 1
                /\ messages'[Len(messages')].content = Trim(ev.text)]_vars
    /\ [][(Continues /\ ~SuffixDuplicate)
             => messages' = ReplaceLast(messages,
                                        JoinedWith(LastContent, Trim(ev.text)))]_vars

\* C13: a segment for the open message that is a suffix-duplicate changes
\* neither the list nor the open-message marker.
C13_DuplicateDropped ==
    [][(Continues /\ SuffixDuplicate)
          => (messages' = messages /\ MarkerUnchanged)]_vars

\* "ab" and then its suffix "b" (padded) for the same utterance.
C13_Witness ==
    /\ Len(heard) = 2 /\ Len(messages) = 1
    /\ heard[1].kind = "segment" /\ heard[2].kind = "segment"
    /\ heard[1].sender = heard[2].sender /\ heard[1].id = heard[2].id
    /\ heard[1].text = <<"a", "b">> /\ heard[2].text = <<" ", "b", " ">>
    /\ messages[1].content = <<"a", "b">>

\* C14: a segment with some text that follows a speaker change or a call
\* of handleEndMessage appends a message, with an id that no message of the
\* list has, and leaves the messages of the list as they are.
C14_SealedMessage ==
    [][(HearsSegment /\ currentSenderRef # ev.sender)
          => /\ Len(messages') = Len(messages) + 1
             /\ \A j \in 1..Len(messages) :
                    /\ messages'[j] = messages[j]
                    /\ messages'[Len(messages')].id # messages[j].id]_vars

C16_Attribution ==
    /\ [][(HearsSegment /\ messages' # messages)
             => /\ messages'[Len(messages')].sender = ev.sender
                /\ Len(messages') >= Len(messages)
                /\ \A j \in 1..Len(messages) : messages'[j].sender = messages[j].sender
                /\ (Len(messages') = Len(messages)
                       => messages[Len(messages)].sender = ev.sender)]_vars
    /\ []((/\ Len(heard) = 3
           /\ \A j \in 1..3 : heard[j].kind = "segment"
           /\ heard[1].sender = CLIENT /\ heard[1].text = Hola
           /\ heard[2].sender = CLIENT /\ heard[2].text = Doctora
           /\ heard[1].id = <<"U1", 0>> /\ heard[2].id = <<"U1", 0>>
           /\ heard[3].sender = AVATAR /\ heard[3].text = BuenosDias
           /\ heard[3].id = <<"A1", 0>>)
          => /\ Len(messages) = 2
             /\ messages[1].sender = CLIENT
             /\ messages[1].content = Hola \o <<" ">> \o Doctora
             /\ messages[2].sender = AVATAR
             /\ messages[2].content = BuenosDias)

\* The greeting of the contract has been heard.
C16_Witness ==
    /\ Len(heard) = 3 /\ Len(messages) = 2
    /\ heard[1].text = Hola /\ heard[2].text = Doctora /\ heard[3].text = BuenosDias
    /\ heard[1].sender = CLIENT /\ heard[2].sender = CLIENT /\ heard[3].sender = AVATAR
    /\ messages[1].content = Hola \o <<" ">> \o Doctora

\* C17: a segment whose text is empty or whitespace only changes neither
\* the list nor the open-message marker.
C17_BlankSegment ==
    [][(Hears /\ ev.kind = "segment" /\ Blank(ev.text))
          => (messages' = messages /\ MarkerUnchanged)]_vars

\* A whitespace-only segment was heard while a message was open.
C17_Witness ==
    /\ Len(heard) = 2 /\ Len(messages) = 1
    /\ heard[1].kind = "segment" /\ heard[2].kind = "segment"
    /\ heard[2].text = <<" ", "\n">>
    /\ heard[1].sender = heard[2].sender /\ heard[1].id = heard[2].id
    /\ currentSenderRef = heard[1].sender

(***************************************************************************)
(* The device tracks.                                                       *)
(***************************************************************************)
\* C18: once the page is unmounted and getUserMedia has settled, no track
\* of the acquired stream is live, also when the promise of getUserMedia
\* was resolved after the unmount.
C18_TracksReleased == (~mounted /\ mediaPc # "asking") => ~tracksLive

(***************************************************************************)
(* Errors of the connect sequence.                                          *)
(***************************************************************************)
\* The latest call of startHeyGenSession has ended in its catch block.
LastConnectFailed == connects # <<>> /\ connects[Len(connects)].err # ""

\* C19: after a failed connect attempt sessionState becomes INACTIVE again,
\* and no attempt is rejected by the hook's start() because a session is
\* still taken to be active.
C19_RetryAfterFailure ==
    /\ [](\A c \in 1..Len(connects) : connects[c].err # AlreadyActive)
    /\ LastConnectFailed ~> sessionState = INACTIVE

\* C20: every error of the connect sequence (the token, startAvatar, the
\* voice chat), a rejected play() of the avatar video and a refused media
\* permission leave the "blocked, click to retry" message shown.
C20_ErrorsShowRetry ==
    /\ [][(\E c \in 1..Len(connects) : connects[c].err = "" /\ connects'[c].err # "")
             => showAutoplayBlockedMessage']_vars
    /\ [][(playPending /\ ~playPending' /\ faults' > faults)
             => showAutoplayBlockedMessage']_vars
    /\ [][(mediaPc = "asking" /\ mediaPc' = "denied")
             => showAutoplayBlockedMessage']_vars

(***************************************************************************)
(* The media permission and the connect sequence.                           *)
(***************************************************************************)
\* C21: once getUserMedia was refused it is called again only by the retry
\* button, and a click on the retry button does call it again.
C21_RetryAsksAgain ==
    /\ [][(mediaPc = "denied" /\ mediaPc' = "asking") => ClickRetry]_vars
    /\ [][(mediaPc = "denied" /\ ClickRetry) => mediaPc' = "asking"]_vars

\* C22: a call of startHeyGenSession is started only with the media
\* permission; without it the start and retry handlers return, nothing of
\* the vendor SDK is created and sessionState stays INACTIVE.
C22_NoConnectWithoutPermission ==
    /\ [][Len(connects') > Len(connects) => hasUserMediaPermission]_vars
    /\ [](~hasUserMediaPermission =>
             sessionState = INACTIVE /\ avatars = <<>> /\ connects = <<>>)

\* The retry handler of R has run without the permission.
C22_Witness ==
    /\ page = "R" /\ mediaPc = "denied" /\ ~hasUserMediaPermission
    /\ ~showAutoplayBlockedMessage
    /\ connects = <<>> /\ sessionState = INACTIVE

\* C23: sessionState becomes CONNECTING only from INACTIVE and CONNECTED
\* only from CONNECTING, and STREAM_READY of an avatar that is not the
\* latest one never takes an INACTIVE session to CONNECTED.
C23_StateTransitions ==
    /\ [][(sessionState' = CONNECTING /\ sessionState # CONNECTING)
             => sessionState = INACTIVE]_vars
    /\ [][(sessionState' = CONNECTED /\ sessionState # CONNECTED)
             => sessionState = CONNECTING]_vars
    /\ [][\A i \in 1..Len(avatars) :
             (/\ i < Len(avatars)
              /\ avatars[i].status = "starting" /\ avatars'[i].status = "ready"
              /\ sessionState = INACTIVE)
             => sessionState' # CONNECTED]_vars

(***************************************************************************)
(* Missing user data.                                                       *)
(***************************************************************************)
\* One of the fields the copy reads of name, email, scenario and token is
\* in neither the query string nor the cookies.
SessionDataMissing ==
    \E f \in {"name", "email", "scenario", "token"} \cap FieldsRead(page) :
        f \notin userData

\* C24: when a field of the session data is missing, the page has navigated
\* to /dashboard, getUserMedia is not called and no connect attempt is made.
C24_MissingDataRedirects ==
    SessionDataMissing => (navs >= 1 /\ mediaPc = "idle" /\ connects = <<>>)

(***************************************************************************)
(* The requests of the finalizer.                                           *)
(***************************************************************************)
\* C25: when the upload or the log request of a run fails (the fetch is
\* rejected or answered with a non-2xx status), the run has raised an alert
\* when it goes on to navigate.
C25_FailureAlerts ==
    [][\A k \in 1..Len(runs) :
          (/\ runs[k].pc \in {"upload", "log"}
           /\ runs'[k].pc # runs[k].pc
           /\ faults' > faults)
          => runs'[k].alerted]_vars

\* The run of the finalizer has issued POST /upload_video.
MadeUpload(k) == \E u \in 1..Len(uploads) : uploads[u].run = k

C27_OneRecorder ==
    /\ [](mediaRecorderRef => startUserCameraRecording(State) = State)
    /\ [][(~mediaRecorderRef /\ mediaRecorderRef') => recorder = NoRecorder]_vars

\* R holds a recorder and a chunk of it while the stream is live: a second
\* recorder could be made and would clear the chunks.
C27_Witness ==
    /\ page = "R" /\ mediaRecorderRef /\ recorder.state # "none"
    /\ localUserStreamRef /\ tracksLive /\ recordedChunks > 0

\* C28: the recorder is made in the render in which sessionState is
\* CONNECTED, so none exists while the session has only been INACTIVE or
\* CONNECTING.
C28_RecorderAfterConnected ==
    /\ [][(recorder = NoRecorder /\ recorder' # NoRecorder)
             => sessionState' = CONNECTED]_vars
    /\ [](avatars = <<>> => (recorder = NoRecorder /\ ~mediaRecorderRef))

\* R records in a connected session.
C28_Witness ==
    /\ page = "R" /\ sessionState = CONNECTED
    /\ mediaRecorderRef /\ recorder.state = "recording"

(***************************************************************************)
(* The dashboard's records.                                                 *)
(***************************************************************************)
\* The value is no video: null, undefined, "" or one of the three sentinels.
NoVideo(v) ==
    \/ v.type # "string"
    \/ v.text = ""
    \/ v.text = "Video_Not_Available_Error"
    \/ v.text = "Video_Processing_Failed"
    \/ v.text = "Video_Missing_Error"

\* C29: the video_s3 of a record is null exactly when that of the session
\* is null, empty or a sentinel, and is the session's value otherwise.
C29_SentinelsAreNoVideo ==
    \A i \in 1..Len(records) :
        /\ records[i].video_s3 = JsNull <=> NoVideo(sessions[i].video_s3)
        /\ ~NoVideo(sessions[i].video_s3) =>
               records[i].video_s3 = sessions[i].video_s3

\* The dashboard has made the records of a session with a sentinel and of
\* one with a URL.
C29_Witness ==
    /\ Len(records) = 2
    /\ sessions[1].video_s3 = JsString("Video_Processing_Failed")
    /\ records[1].video_s3 = JsNull
    /\ records[2].video_s3 = JsString("https://bucket/s1.webm")

(***************************************************************************)
(* The accumulator's duplicate rule (checked under AccSpec).                *)
(***************************************************************************)
\* C30: a segment for the open message leaves the list as it is only when
\* its trimmed text is a suffix of the open content; one whose text occurs
\* in the content without ending it makes the content longer and ends it.
C30_DroppedOnlyIfSuffix ==
    /\ [][(Continues /\ messages' = messages) => SuffixDuplicate]_vars
    /\ [][(Continues /\ Includes(LastContent, Trim(ev.text)) /\ ~SuffixDuplicate)
             => /\ Len(messages') = Len(messages)
                /\ Len(messages'[Len(messages')].content) > Len(LastContent)
                /\ EndsWith(messages'[Len(messages')].content, Trim(ev.text))]_vars

(***************************************************************************)
(* The local stream after a failed connect attempt.                         *)
(***************************************************************************)
\* C31: while the page is mounted with the media permission and no
\* finalizer has started, localUserStreamRef holds the stream and its
\* tracks are live, also after a connect attempt has failed.
C31_StreamKept ==
    (mounted /\ hasUserMediaPermission /\ ~isFinalizingRef /\ runs = <<>>)
        => (localUserStreamRef /\ tracksLive)

(***************************************************************************)
(* What a session that never connected leaves behind.                       *)
(***************************************************************************)
\* C32: POST /log_full_session and POST /upload_video are issued only by a
\* finalizer that was invoked in a CONNECTED session; an unmount before
\* that issues neither.
C32_LogOnlyConnected ==
    /\ \A l \in 1..Len(logs) : runs[logs[l].run].state = CONNECTED
    /\ \A u \in 1..Len(uploads) : runs[uploads[u].run].state = CONNECTED

(***************************************************************************)
(* Re-delivery of a segment (checked under AccSpec).                        *)
(***************************************************************************)
\* The call of this step repeats the one before it: the same handler, the
\* same text, speaker and utterance id.
Redelivered == Hears /\ heard # <<>> /\ ev.kind = "segment" /\ heard[Len(heard)] = ev

UploadFailed(k) == MadeUpload(k) /\ runs[k].pc \notin {"preUpload", "upload"} /\ runs[k].key = ""

\* C34: once the upload of a run has failed, no POST /log_full_session is
\* issued in the session, and the run goes on to navigate to /dashboard.
C34_NoLogAfterFailedUpload ==
    /\ []((\E k \in 1..Len(runs) : UploadFailed(k)) => logs = <<>>)
    /\ [][\A k \in 1..Len(runs) :
             (runs[k].pc = "upload" /\ runs'[k].pc # "upload" /\ runs'[k].key = "")
             => (navs' = navs + 1 \/ runs'[k].pc = "preNav")]_vars

(***************************************************************************)
(* startAvatar while a session is active (checked under RetrySpec): the    *)
(* connect phase of the second session page, where the retry button stays  *)
(* on screen and calls startHeyGenSession(true) at every click.            *)
(***************************************************************************)
MaxRetries == 3    \* connect attempts under RetrySpec

\* The retry button clicked again while a call is still waiting for its
\* token.
ClickRetryAgain ==
    /\ ControlsRendered(State) /\ ConnectExplored(State)
    /\ showAutoplayBlockedMessage
    /\ Len(connects) < MaxRetries
    /\ Step(handleAutoplayRetry(State))

RetryInit == PageInit /\ page = "C" /\ DashIdle /\ LoginIdle /\ MwIdle

RetryNext ==
    \/ MediaGranted \/ MediaDenied
    \/ ClickStart \/ ClickRetryAgain
    \/ TokenSettles \/ CreateSettles \/ VoiceSettles
    \/ StreamReady \/ StopSettles \/ AutoplaySettles

RetrySpec == RetryInit /\ [][RetryNext]_vars

\* startAvatar is called in this step by call c of startHeyGenSession.
StartsAvatar(c) ==
    /\ connects[c].pc = "token" /\ connects'[c].pc # "token"
    /\ Len(avatars') = Len(avatars) + 1

\* C35: startAvatar called while sessionState is not INACTIVE throws
\* "There is already an active session", and the call itself changes
\* neither sessionState nor the stream nor the listeners of the avatar.
C35_AlreadyActive ==
    /\ [][\A c \in 1..Len(connects) :
             (StartsAvatar(c) /\ sessionState # INACTIVE)
             => connects'[c].err = AlreadyActive]_vars
    /\ [](\A c \in 1..Len(connects) :
             (connects[c].pc = "token" /\ connects[c].st # INACTIVE) =>
                 LET s0 == init(State, connects[c].tm)
                     s1 == startAvatar(s0, c)
                 IN  /\ s1.connects[c].err = AlreadyActive
                     /\ s1.sessionState = s0.sessionState
                     /\ s1.stream = s0.stream
                     /\ s1.avatars = s0.avatars)

(***************************************************************************)
(* The login page (checked under LoginSpec).                                *)
(***************************************************************************)
\* Call v of handleSubmit gets its answer in this step, a success or not.
Answered(v, ok) ==
    /\ validations[v].answer = "" /\ validations'[v].answer # ""
    /\ ok <=> validations'[v].answer = "ok"

\* C36: the login page sets cookies and navigates only in the step in which
\* POST /validate_user is answered with success; it sends the request only
\* with the three inputs filled; and a failed request sets no cookie, does
\* not navigate and shows an error message.
C36_LoginAfterSuccess ==
    /\ [][(cookieJar' # cookieJar \/ pushed' # pushed)
             => \E v \in 1..Len(validations) : Answered(v, TRUE)]_vars
    /\ [][Len(validations') > Len(validations)
             => (fields.name # "" /\ fields.email # "" /\ fields.token # "")]_vars
    /\ [][(\E v \in 1..Len(validations) : Answered(v, FALSE))
             => (cookieJar' = cookieJar /\ pushed' = pushed /\ error' # "")]_vars

\* A login was refused, nothing was stored and the error is shown.
C36_Witness ==
    /\ \E v \in 1..Len(validations) : validations[v].answer \in {"non2xx", "rejected"}
    /\ cookieJar = NoCookies /\ pushed = <<>> /\ error # ""

(***************************************************************************)
(* The middleware (checked under MwSpec).                                   *)
(***************************************************************************)
\* The request is for /dashboard or a page below it.
ForDashboard == req.pathname = DashboardPath \/ StartsWith(req.pathname, DashboardPath \o <<"/">>)

Handled == res # NoResponse

\* C37, with every auth parameter taken through the verification, the
\* empty one too: it is redirected to / as a token that does not verify.
C37_AnyAuthVerified ==
    Handled =>
        IF ForDashboard /\ req.auth # JsNull
        THEN IF Verifies(req.auth.text, JWT_SECRET)
             THEN res = Redirect(DashboardPath, UserCookies(req.auth.text))
             ELSE res = Redirect(RootPath, NoCookies)
        ELSE res = PassThrough

\* C37: for a /dashboard request with a non-empty auth parameter the
\* middleware redirects to /dashboard with the four user cookies when the
\* token verifies and to / without any cookie when it does not; a request
\* without an auth parameter, with an empty one, or for another path goes
\* on unchanged.
C37_MiddlewareVerifies ==
    Handled =>
        IF ForDashboard /\ req.auth # JsNull /\ req.auth # JsString("")
        THEN IF Verifies(req.auth.text, JWT_SECRET)
             THEN /\ res.kind = "redirect" /\ res.to = DashboardPath
                  /\ DOMAIN res.cookies =
                         {"user_name", "user_email", "user_token", "user_scenario"}
                  /\ res.cookies["user_token"] = req.auth.text
                  /\ res.cookies["user_name"] = Decode(req.auth.text).payload.name
             ELSE res = Redirect(RootPath, NoCookies)
        ELSE res = PassThrough

\* A forged token for the dashboard was sent back to the root.
C37_Witness ==
    /\ req.pathname = DashboardPath /\ req.auth = JsString("ana.forged")
    /\ res = Redirect(RootPath, NoCookies)

====
